---- MODULE Spec2Model ----
(***************************************************************************)
(* NotionAutomater: the record mapper and collection of MarketingAPI.py,   *)
(* the query of NotionAPI.py, the polling thread and HTTP handlers of      *)
(* SlackFlask.py and the webhook sender of SlackInterconnect.py.           *)
(*                                                                         *)
(* Python values are tagged records [t |-> type, v |-> payload]:           *)
(*   None        [t |-> "null", v |-> 0]                                   *)
(*   str         [t |-> "str",  v |-> "..."]                               *)
(*   int         [t |-> "num",  v |-> n]                                   *)
(*   list        [t |-> "list", v |-> << items >>]                         *)
(*   dict        [t |-> "dict", v |-> << <<key, value>>, ... >>]           *)
(*               (insertion ordered, as Python's dict)                     *)
(*   datetime    [t |-> "datetime", v |-> yyyymmdd]                        *)
(*   a raised exception  [t |-> "raise", v |-> exception class]            *)
(***************************************************************************)
EXTENDS Integers, Sequences, FiniteSets, TLC

VARIABLES
    \* ---- MarketingAPI.py, exercised as pure functions (SpecMap) ----
    record_map,     \* the raw batch handed to from_record_map
    collection,     \* what from_record_map returned or raised; NotRun before
    page,           \* the raw page last handed to from_notion_page
    req,            \* what from_notion_page returned or raised; NotRun before
    fetch_arg,      \* the argument of the last fetch_requests_by_status
    fetched         \* what the last fetch_requests_by_status returned

mapVars == <<record_map, collection, page, req, fetch_arg, fetched>>

VARIABLES
    \* ---- SlackFlask.py: the polling thread and the HTTP handlers (Spec) ----
    notion_data,    \* the global cache: None or the collection last published
    poll_pc,        \* where fetch_notion_data is in its loop
    p_response,     \* the local response of query_marketing_requests
    p_blocks,       \* the block values from_record_map iterates over
    p_requests,     \* the local list requests of from_record_map
    p_ret,          \* the collection the query built and returns
    p_exc,          \* the exception the except clause received
    h_pc,           \* the HTTP handler: "idle", "read", "done"
    h_kind,         \* which endpoint is being served
    h_data,         \* the value the handler loaded from notion_data, while it
                    \* is working on it
    h_result        \* what the handler returned or raised

pollVars == <<notion_data, poll_pc, p_response, p_blocks, p_requests, p_ret, p_exc>>
handlerVars == <<h_pc, h_kind, h_data, h_result>>

VARIABLES
    \* ---- SlackInterconnect.py: the webhook sender and its callers (SpecSlack) ----
    s_pc,           \* "idle", "post", "check", "done"
    s_message,      \* the message argument of send_slack_webhook_message
    s_response,     \* the response of the webhook to the POST
    s_outcome,      \* what the call returned or raised
    s_posts         \* the POSTs issued to the webhook so far

slackVars == <<s_pc, s_message, s_response, s_outcome, s_posts>>

vars == <<mapVars, pollVars, handlerVars, slackVars>>

-----------------------------------------------------------------------------
(* Python values *)

PyNone == [t |-> "null", v |-> 0]
JStr(s) == [t |-> "str", v |-> s]
JNum(n) == [t |-> "num", v |-> n]
JList(items) == [t |-> "list", v |-> items]
JDict(pairs) == [t |-> "dict", v |-> pairs]
Datetime(d) == [t |-> "datetime", v |-> d]
Raised(e) == [t |-> "raise", v |-> e]
NotRun == [t |-> "notrun", v |-> 0]

IsRaised(x) == x.t = "raise"

\* F applied to the value of x, x evaluated once: LET y == x IN F(y)
Let(x, F(_)) == CHOOSE r \in {F(y) : y \in {x}} : TRUE

\* F(x), unless x is an exception on its way up the stack
Then(x, F(_)) == Let(x, LAMBDA y : IF IsRaised(y) THEN y ELSE F(y))

\* bool(x) of a JSON value
Truthy(x) ==
    CASE x.t = "null" -> FALSE
      [] x.t = "str" -> x.v # ""
      [] x.t = "num" -> x.v # 0
      [] x.t = "list" -> Len(x.v) > 0
      [] x.t = "dict" -> Len(x.v) > 0
      [] OTHER -> TRUE

\* key in d, d a dict
DictHas(d, k) == \E i \in 1..Len(d.v) : d.v[i][1] = k

\* d.get(k, default): AttributeError on anything but a dict
DictGet(d, k, default) ==
    IF d.t # "dict" THEN Raised("AttributeError")
    ELSE IF DictHas(d, k)
         THEN d.v[CHOOSE i \in 1..Len(d.v) : d.v[i][1] = k][2]
         ELSE default

\* list(d.values()), in insertion order
DictValues(d) == [i \in 1..Len(d.v) |-> d.v[i][2]]

\* x[i] (0-based) inside the try block of from_notion_page: IndexError,
\* KeyError (JSON keys are strings, never the int i) and TypeError are all
\* caught by the same except.  A str subscript yields only another str, which
\* fails at the closing .get, so it is folded into the failure.
Sub(x, i) ==
    Then(x, LAMBDA y : IF y.t = "list" /\ i < Len(y.v) THEN y.v[i + 1]
                       ELSE Raised("Exception"))

-----------------------------------------------------------------------------
(* MarketingAPI.py: MarketingRequest *)

\* STATUS_ORDER, as the set of <<key, rank>> pairs
STATUS_ORDER ==
    { <<"Not Started", 0>>, <<"Need Visuals", 1>>, <<"Drafted", 2>>,
      <<"Confirmed", 3>>, <<"Posted", 4>> }

\* float('inf'): above every rank of STATUS_ORDER
Inf == 1000000

\* datetime(2024, 9, 1)
FallbackDate == 20240901

\* The date strings of the inputs and the date each denotes.
IsoDates ==
    { <<"2025-02-03", 20250203>>, <<"2025-02-04", 20250204>>,
      <<"2025-02-05", 20250205>>, <<"2025-02-12", 20250212>> }

\* datetime.fromisoformat(s): TypeError unless s is a str, ValueError unless
\* it spells a date
fromisoformat(s) ==
    IF s.t # "str" THEN Raised("TypeError")
    ELSE IF \E p \in IsoDates : p[1] = s.v
         THEN Datetime((CHOOSE p \in IsoDates : p[1] = s.v)[2])
         ELSE Raised("ValueError")

\* get_first(prop_key), properties a dict
get_first(properties, prop_key) ==
    Let(DictGet(properties, prop_key, PyNone), LAMBDA val :
        IF /\ Truthy(val)
           /\ val.t = "list"
           /\ Len(val.v) > 0
           /\ val.v[1].t = "list"
           /\ Len(val.v[1].v) > 0
        THEN val.v[1].v[1]
        ELSE PyNone)

\* x or ""
OrEmpty(x) == Let(x, LAMBDA y : IF Truthy(y) THEN y ELSE JStr(""))

\* line 85: properties["{Rrz"][0][1][0][1].get("start_date"), or the exception
start_date_of(properties) ==
    Then(Sub(Sub(Sub(Sub(DictGet(properties, "{Rrz", PyNone), 0), 1), 0), 1),
         LAMBDA leaf : DictGet(leaf, "start_date", PyNone))

\* post_date_of leaving post_date None when the path or the string is bad, as
\* the comment in the except branch describes
post_date_of_unset(properties) ==
    IF DictHas(properties, "{Rrz")
    THEN Let(start_date_of(properties), LAMBDA date_str :
            IF IsRaised(date_str) THEN PyNone
            ELSE IF Truthy(date_str)
                 THEN Let(fromisoformat(date_str), LAMBDA d :
                        IF IsRaised(d) THEN PyNone ELSE d)
                 ELSE Datetime(FallbackDate))
    ELSE Datetime(FallbackDate)

\* lines 80-96: the post date of the properties dict
post_date_of(properties) ==
    IF DictHas(properties, "{Rrz")
    THEN Let(start_date_of(properties), LAMBDA date_str :
            IF IsRaised(date_str) THEN Datetime(FallbackDate)
            ELSE IF Truthy(date_str)
                 THEN Let(fromisoformat(date_str), LAMBDA d :
                        IF IsRaised(d) THEN Datetime(FallbackDate) ELSE d)
                 ELSE Datetime(FallbackDate))
    ELSE Datetime(FallbackDate)

\* MarketingRequest.from_notion_page(page): page.get and properties.get are
\* outside any try, so a page or a properties value that is no dict raises
from_notion_page(pg) ==
    Then(DictGet(pg, "properties", JDict(<<>>)), LAMBDA properties :
    IF properties.t # "dict" THEN Raised("AttributeError")
    ELSE [ t |-> "MarketingRequest",
           id |-> DictGet(pg, "id", PyNone),
           title |-> OrEmpty(get_first(properties, "title")),
           event |-> get_first(properties, ">zXz"),
           content_type |-> get_first(properties, "aJ@j"),
           status |-> get_first(properties, "nSLy"),
           content_summary |-> get_first(properties, "[B|e"),
           post_date |-> post_date_of(properties),
           final_post |-> PyNone,
           visuals |-> PyNone ])

\* hash(x) raises TypeError for a list or a dict
Unhashable(x) == x.t \in {"list", "dict"}

\* STATUS_ORDER.get(status, float('inf'))
status_rank(status) ==
    IF Unhashable(status) THEN Raised("TypeError")
    ELSE IF status.t = "str" /\ \E p \in STATUS_ORDER : p[1] = status.v
         THEN JNum((CHOOSE p \in STATUS_ORDER : p[1] = status.v)[2])
         ELSE JNum(Inf)

\* MarketingRequest._sort_key: the tuple (status_rank, date_key), or the
\* TypeError of hashing an unhashable status
_sort_key(r) ==
    Then(status_rank(r.status), LAMBDA rank :
       LET date_key == IF r.post_date.t # "null" THEN r.post_date
                       ELSE Datetime(FallbackDate)
       IN  [t |-> "tuple", v |-> <<rank.v, date_key.v>>])

\* tuple comparison a < b of two sort keys
KeyLess(a, b) == a[1] < b[1] \/ (a[1] = b[1] /\ a[2] < b[2])

\* MarketingRequest.__lt__: a bool, or the exception of a sort key
__lt__(self, other) ==
    Then(_sort_key(self), LAMBDA a :
       Then(_sort_key(other), LAMBDA b :
          [t |-> "bool", v |-> KeyLess(a.v, b.v)]))

-----------------------------------------------------------------------------
(* list.sort() of MarketingRequest objects *)

\* One insertion of x into the sorted list s, scanning from the right while
\* x < s[i]; the exception of a comparison propagates.
RECURSIVE Insert(_, _, _)
Insert(s, x, i) ==
    IF i = 0 THEN JList(<<x>> \o s)
    ELSE Then(__lt__(x, s[i]), LAMBDA c :
            IF c.v THEN Insert(s, x, i - 1)
            ELSE JList(SubSeq(s, 1, i) \o <<x>> \o SubSeq(s, i + 1, Len(s))))

\* requests.sort(): a stable sort by __lt__ alone.  Every element of a list of
\* two or more takes part in at least one comparison, in CPython's sort as in
\* this one, so the two raise on the same lists and agree on all others.
RECURSIVE SortFrom(_, _)
SortFrom(done, rest) ==
    IF rest = <<>> THEN JList(done)
    ELSE Then(Insert(done, Head(rest), Len(done)), LAMBDA ins :
            SortFrom(ins.v, Tail(rest)))

sort(requests) == SortFrom(<<>>, requests)

-----------------------------------------------------------------------------
(* MarketingAPI.py: MarketingRequestCollection *)

Collection(requests) == [t |-> "MarketingRequestCollection", requests |-> requests]

\* the for loop of from_record_map over the first n blocks: the list of
\* requests, or the exception that ended the loop
RECURSIVE MapBlocks(_, _)
MapBlocks(blocks, n) ==
    IF n = 0 THEN JList(<<>>)
    ELSE LET before == MapBlocks(blocks, n - 1) IN
         IF IsRaised(before) THEN before
         ELSE LET value == DictGet(blocks[n], "value", JDict(<<>>))
                  r == IF IsRaised(value) THEN value ELSE from_notion_page(value)
              IN  IF IsRaised(r) THEN r ELSE JList(Append(before.v, r))

\* MarketingRequestCollection.from_record_map(record_map)
from_record_map(rm) ==
    LET recordMap == DictGet(rm, "recordMap", JDict(<<>>))
        blocks == IF IsRaised(recordMap) THEN recordMap
                  ELSE DictGet(recordMap, "block", JDict(<<>>))
    IN  IF IsRaised(blocks) THEN blocks
        ELSE IF blocks.t # "dict" THEN Raised("AttributeError")
        ELSE LET requests == MapBlocks(DictValues(blocks), Len(blocks.v)) IN
             IF IsRaised(requests) THEN requests
             ELSE LET sorted == sort(requests.v) IN
                  IF IsRaised(sorted) THEN sorted ELSE Collection(sorted.v)

\* a str lowered; the strings here differ in case in their first letter only
Lower(x) == IF x = "Confirmed" THEN "confirmed" ELSE x

\* PyEq comparing strings without regard to case
PyEqIgnoreCase(a, b) ==
    a.t = b.t /\ (IF a.t = "str" THEN Lower(a.v) = Lower(b.v) ELSE a.v = b.v)

\* Python's == on the values a status can take
PyEq(a, b) == a.t = b.t /\ a.v = b.v

\* MarketingRequestCollection._fetch(val, key) with key = lambda req: req.status
_fetch_status(self, val) ==
    SelectSeq(self.requests, LAMBDA r : PyEq(r.status, val))

\* MarketingRequestCollection.fetch_requests_by_status(status)
fetch_requests_by_status(self, status) == _fetch_status(self, status)

-----------------------------------------------------------------------------
(* The raw records the external API is taken to return *)

\* most blocks of one response
MaxBatch == 3

\* [["s"]], the shape get_first reads
Text(s) == JList(<<JList(<<JStr(s)>>)>>)

\* [["u2023", [["d", leaf]]]], the shape of the "{Rrz" rollup
DateProp(leaf) ==
    JList(<<JList(<<JStr("u2023"), JList(<<JList(<<JStr("d"), leaf>>)>>)>>)>>)

StartDate(s) == JDict(<< <<"type", JStr("date")>>, <<"start_date", JStr(s)>> >>)

RawPage(id, properties) == JDict(<< <<"id", JStr(id)>>, <<"properties", properties>> >>)

PagePosted ==
    RawPage("A", JDict(<< <<"title", Text("Launch")>>, <<"nSLy", Text("Posted")>>,
                          <<"{Rrz", DateProp(StartDate("2025-02-12"))>> >>))
PageNotStarted ==
    RawPage("B", JDict(<< <<"title", Text("Teaser")>>, <<"aJ@j", Text("Reel")>>,
                          <<"nSLy", Text("Not Started")>>,
                          <<"{Rrz", DateProp(StartDate("2025-02-05"))>> >>))
PageConfirmed ==
    RawPage("C", JDict(<< <<"title", Text("Recap")>>, <<"nSLy", Text("Confirmed")>>,
                          <<"{Rrz", DateProp(StartDate("2025-02-04"))>> >>))
\* the date dict has no start_date
PageNoStartDate ==
    RawPage("D", JDict(<< <<"title", Text("Poster")>>, <<"nSLy", Text("Confirmed")>>,
                          <<"{Rrz", DateProp(JDict(<< <<"type", JStr("date")>> >>))>> >>))
\* a status outside STATUS_ORDER and a date string that is no date
PageBadDateString ==
    RawPage("E", JDict(<< <<"nSLy", Text("confirmed")>>,
                          <<"{Rrz", DateProp(StartDate("next week"))>> >>))
\* no status; a title and a date path of the wrong shape
PageBadDatePath ==
    RawPage("F", JDict(<< <<"title", JStr("plain")>>,
                          <<"{Rrz", JList(<<JList(<<JStr("u2023")>>)>>)>> >>))
\* properties present but a list
PageListProperties == RawPage("G", JList(<<>>))
\* a status whose first value is itself a list; an empty start_date
PageListStatus ==
    RawPage("H", JDict(<< <<"nSLy", JList(<<JList(<<JList(<<JStr("x")>>)>>)>>)>>,
                          <<"{Rrz", DateProp(StartDate(""))>> >>))
\* no properties and no id
PageEmpty == JDict(<<>>)

RawPages ==
    { PagePosted, PageNotStarted, PageConfirmed, PageNoStartDate, PageBadDateString,
      PageBadDatePath, PageListProperties, PageListStatus, PageEmpty }

\* block_data of a page; the empty page stands for a block with no "value"
Block(pg) == IF pg = PageEmpty THEN JDict(<<>>) ELSE JDict(<< <<"value", pg>> >>)

\* the response body {"recordMap": {"block": {"b1": ..., "b2": ...}}}
BlockKeys == <<"b1", "b2", "b3", "b4", "b5">>
RecordMap(pages) ==
    JDict(<< <<"recordMap",
               JDict(<< <<"block",
                          JDict([i \in 1..Len(pages) |-> <<BlockKeys[i], Block(pages[i])>>])>> >>)>> >>)

Batches(pages, n) == UNION { [1..k -> pages] : k \in 0..n }

\* every batch of at most MaxBatch pages, a body without recordMap, and a body
\* that is a JSON array
RecordMaps ==
    { RecordMap(b) : b \in Batches(RawPages, MaxBatch) } \cup { JDict(<<>>), JList(<<>>) }

\* the status values handlers and callers filter by
StatusArgs == { JStr("Not Started"), JStr("Confirmed"), JStr("confirmed"), JStr("Posted") }

\* the mapper's variables while the mapper is not exercised
MapIdle ==
    /\ record_map = NotRun
    /\ collection = NotRun
    /\ page = NotRun
    /\ req = NotRun
    /\ fetch_arg = NotRun
    /\ fetched = NotRun

-----------------------------------------------------------------------------
(* NotionAPI.py: the transport of query_marketing_requests *)

\* most blocks of one polled response
MaxPollBatch == 2

\* the pages the polled collection is taken to hold
PollPages ==
    { PageNotStarted, PageConfirmed, PageNoStartDate, PageListProperties, PageListStatus }

Response(status_code, body) == [t |-> "response", status_code |-> status_code, body |-> body]

\* a body that is not JSON
HtmlBody == [t |-> "text", v |-> "<html>"]

\* the blocks of one response: a record map is keyed by block id, so it holds
\* a page of the collection once
PollBatches ==
    { b \in Batches(PollPages, MaxPollBatch) :
        \A i, j \in DOMAIN b : b[i] = b[j] => i = j }

\* what requests.post can produce: a connection error, an error status, a
\* 200 whose body is not JSON, and a 200 with each batch
Transports ==
    { Raised("ConnectionError"), Response(500, HtmlBody), Response(200, HtmlBody) }
    \cup { Response(200, RecordMap(b)) : b \in PollBatches }

\* response.raise_for_status(): HTTPError for a 4xx or 5xx status
raise_for_status(response) ==
    IF response.status_code >= 400 /\ response.status_code < 600
    THEN Raised("HTTPError") ELSE PyNone

\* response.json()
json(response) ==
    IF response.body.t = "text" THEN Raised("JSONDecodeError") ELSE response.body

\* lines 88-90: the collection of the parsed body, its requests sorted again
collection_of(data) ==
    Then(from_record_map(data),
         LAMBDA marketing_requests :
            Then(sort(marketing_requests.requests), LAMBDA again : Collection(again.v)))

\* lines 83-90 of query_marketing_requests, from the outcome of requests.post
query_marketing_requests(transport) ==
    Then(transport,
         LAMBDA response :
            Then(raise_for_status(response),
                 LAMBDA ok : Then(json(response), collection_of)))

-----------------------------------------------------------------------------
(* SlackFlask.py: fetch_notion_data, the polling thread *)

PollIdle ==
    /\ notion_data = PyNone
    /\ poll_pc = "post"
    /\ p_response = NotRun
    /\ p_blocks = NotRun
    /\ p_requests = NotRun
    /\ p_ret = NotRun
    /\ p_exc = NotRun

\* the exception e leaves the try statement for the except clause
PollRaise(e) ==
    /\ poll_pc' = "except"
    /\ p_exc' = e

\* NotionAPI.py line 83: requests.post
PollPost ==
    /\ UNCHANGED <<mapVars, handlerVars, slackVars>>
    /\ poll_pc = "post"
    /\ \E r \in Transports :
        /\ p_response' = r
        /\ IF IsRaised(r) THEN PollRaise(r)
           ELSE poll_pc' = "check" /\ UNCHANGED p_exc
    /\ UNCHANGED <<notion_data, p_blocks, p_requests, p_ret>>

\* NotionAPI.py lines 84-85 and MarketingAPI.py lines 151-152:
\* raise_for_status, json, and the blocks of the record map
PollCheck ==
    /\ UNCHANGED <<mapVars, handlerVars, slackVars>>
    /\ poll_pc = "check"
    /\ LET data == IF IsRaised(raise_for_status(p_response))
                   THEN raise_for_status(p_response) ELSE json(p_response)
           recordMap == IF IsRaised(data) THEN data
                        ELSE DictGet(data, "recordMap", JDict(<<>>))
           blocks == IF IsRaised(recordMap) THEN recordMap
                     ELSE DictGet(recordMap, "block", JDict(<<>>))
       IN  IF IsRaised(blocks)
           THEN PollRaise(blocks) /\ UNCHANGED <<p_blocks, p_requests>>
           ELSE IF blocks.t # "dict"
           THEN PollRaise(Raised("AttributeError")) /\ UNCHANGED <<p_blocks, p_requests>>
           ELSE /\ p_blocks' = JList(DictValues(blocks))
                /\ p_requests' = JList(<<>>)
                /\ poll_pc' = "map"
                /\ UNCHANGED p_exc
    /\ UNCHANGED <<notion_data, p_response, p_ret>>

\* MarketingAPI.py lines 154-155: the request of one block, or the exception
map_block(block_data) == Then(DictGet(block_data, "value", JDict(<<>>)), from_notion_page)

\* PollMap building the list inside the published reference
PollMapPublishing ==
    /\ UNCHANGED <<mapVars, handlerVars, slackVars>>
    /\ poll_pc = "map"
    /\ Len(p_requests.v) < Len(p_blocks.v)
    /\ \E r \in {map_block(p_blocks.v[Len(p_requests.v) + 1])} :
        IF IsRaised(r)
        THEN PollRaise(r) /\ UNCHANGED <<p_requests, notion_data>>
        ELSE /\ p_requests' = JList(Append(p_requests.v, r))
             /\ notion_data' = Collection(Append(p_requests.v, r))
             /\ UNCHANGED <<poll_pc, p_exc>>
    /\ UNCHANGED <<p_response, p_blocks, p_ret>>

\* MarketingAPI.py lines 153-156: one iteration of the mapping loop, r the
\* request of the next block
PollMap ==
    /\ UNCHANGED <<mapVars, handlerVars, slackVars>>
    /\ poll_pc = "map"
    /\ Len(p_requests.v) < Len(p_blocks.v)
    /\ \E r \in {map_block(p_blocks.v[Len(p_requests.v) + 1])} :
        IF IsRaised(r)
        THEN PollRaise(r) /\ UNCHANGED p_requests
        ELSE p_requests' = JList(Append(p_requests.v, r)) /\ UNCHANGED <<poll_pc, p_exc>>
    /\ UNCHANGED <<notion_data, p_response, p_blocks, p_ret>>

\* MarketingAPI.py lines 157-158: requests.sort(); return cls(requests)
PollSort ==
    /\ UNCHANGED <<mapVars, handlerVars, slackVars>>
    /\ poll_pc = "map"
    /\ Len(p_requests.v) = Len(p_blocks.v)
    /\ \E sorted \in {sort(p_requests.v)} :
       IF IsRaised(sorted)
       THEN PollRaise(sorted) /\ UNCHANGED <<p_requests, p_ret>>
       ELSE /\ p_requests' = sorted
            /\ p_ret' = Collection(sorted.v)
            /\ poll_pc' = "resort"
            /\ UNCHANGED p_exc
    /\ UNCHANGED <<notion_data, p_response, p_blocks>>

\* NotionAPI.py lines 89-90: marketing_requests.requests.sort(); return
PollResort ==
    /\ UNCHANGED <<mapVars, handlerVars, slackVars>>
    /\ poll_pc = "resort"
    /\ \E sorted \in {sort(p_ret.requests)} :
       IF IsRaised(sorted)
       THEN PollRaise(sorted) /\ UNCHANGED <<p_requests, p_ret>>
       ELSE /\ p_requests' = sorted
            /\ p_ret' = Collection(sorted.v)
            /\ poll_pc' = "assign"
            /\ UNCHANGED p_exc
    /\ UNCHANGED <<notion_data, p_response, p_blocks>>

\* SlackFlask.py lines 34-35: the store to the global, then the print
PollAssign ==
    /\ UNCHANGED <<mapVars, handlerVars, slackVars>>
    /\ poll_pc = "assign"
    /\ notion_data' = p_ret
    /\ poll_pc' = "sleep"
    /\ UNCHANGED <<p_response, p_blocks, p_requests, p_ret, p_exc>>

\* PollExcept with the except clause also dropping the cache
PollExceptClearing ==
    /\ UNCHANGED <<mapVars, handlerVars, slackVars>>
    /\ poll_pc = "except"
    /\ notion_data' = PyNone
    /\ poll_pc' = "sleep"
    /\ UNCHANGED <<p_response, p_blocks, p_requests, p_ret, p_exc>>

\* Caught taking only the errors of the HTTP call
CaughtRequestErrors(e) == e.v \in {"ConnectionError", "HTTPError"}

\* except Exception: every exception raised here derives from Exception
Caught(e) ==
    e.v \in {"ConnectionError", "HTTPError", "JSONDecodeError", "AttributeError",
             "TypeError"}

\* SlackFlask.py lines 36-37: the except clause prints; an exception it does
\* not catch ends the thread
PollExcept ==
    /\ UNCHANGED <<mapVars, handlerVars, slackVars>>
    /\ poll_pc = "except"
    /\ poll_pc' = IF Caught(p_exc) THEN "sleep" ELSE "dead"
    /\ UNCHANGED <<notion_data, p_response, p_blocks, p_requests, p_ret, p_exc>>

\* SlackFlask.py line 39: time.sleep(60), then the next iteration
PollSleep ==
    /\ UNCHANGED <<mapVars, handlerVars, slackVars>>
    /\ poll_pc = "sleep"
    /\ poll_pc' = "post"
    /\ p_response' = NotRun
    /\ p_blocks' = NotRun
    /\ p_requests' = NotRun
    /\ p_ret' = NotRun
    /\ p_exc' = NotRun
    /\ UNCHANGED notion_data

Poller ==
    \/ PollPost \/ PollCheck \/ PollMap \/ PollSort \/ PollResort
    \/ PollAssign \/ PollExcept \/ PollSleep

-----------------------------------------------------------------------------
(* SlackFlask.py: the HTTP handlers *)

HandlerIdle ==
    /\ h_pc = "idle"
    /\ h_kind = "none"
    /\ h_data = NotRun
    /\ h_result = NotRun

\* jsonify({"response_type": "in_channel", "text": msg, "mkdwn": True})
Json(text) == [t |-> "json", response_type |-> "in_channel", text |-> text, mkdwn |-> TRUE]

\* lines 50-59 of generate_weekly_backlog_graphics on the value loaded: None
\* has no fetch_requests_by_status, and MarketingRequest has no to_markdown,
\* so only an empty match reaches jsonify
backlog_response(data) ==
    IF data = PyNone THEN Raised("AttributeError")
    ELSE LET filtered_data == fetch_requests_by_status(data, JStr("Not Started")) IN
         IF Len(filtered_data) > 0 THEN Raised("AttributeError")
         ELSE Json(<<>>)

\* lines 66-81 of generate_weekly_posting_schedule on the value loaded:
\* neither None nor MarketingRequestCollection has filter_by_criterion
schedule_response(data) == Raised("AttributeError")

\* generate_weekly_backlog_graphics loads notion_data (line 50)
BacklogRead ==
    /\ UNCHANGED <<mapVars, pollVars, slackVars>>
    /\ h_pc = "idle"
    /\ h_pc' = "read"
    /\ h_kind' = "backlog"
    /\ h_data' = notion_data
    /\ UNCHANGED h_result

\* generate_weekly_backlog_graphics filters, renders and returns
BacklogRespond ==
    /\ UNCHANGED <<mapVars, pollVars, slackVars>>
    /\ h_pc = "read"
    /\ h_result' = backlog_response(h_data)
    /\ h_pc' = "done"
    /\ h_data' = NotRun
    /\ UNCHANGED h_kind

\* generate_weekly_posting_schedule, whole: the load of notion_data and the
\* attribute lookup on it (line 66)
Schedule ==
    /\ UNCHANGED <<mapVars, pollVars, slackVars>>
    /\ h_pc = "idle"
    /\ h_kind' = "schedule"
    /\ h_result' = schedule_response(notion_data)
    /\ UNCHANGED h_data
    /\ h_pc' = "done"

\* the response or the error has been sent
HandlerReturn ==
    /\ UNCHANGED <<mapVars, pollVars, slackVars>>
    /\ h_pc = "done"
    /\ h_pc' = "idle"
    /\ h_kind' = "none"
    /\ h_data' = NotRun
    /\ h_result' = NotRun

-----------------------------------------------------------------------------
(* SlackInterconnect.py: send_slack_webhook_message and its callers *)

\* most POSTs followed
MaxPosts == 2

SlackIdle ==
    /\ s_pc = "idle"
    /\ s_message = NotRun
    /\ s_response = NotRun
    /\ s_outcome = NotRun
    /\ s_posts = 0

\* the messages callers pass
SlackMessages == { "", "backlog", "schedule" }

\* what the webhook can answer
SlackResponses ==
    { [t |-> "response", status_code |-> c, text |-> x] :
        c \in {200, 201, 204, 400, 404, 500}, x \in {"ok", "invalid_payload", ""} }

\* Exception(f"Request to Slack returned an error {status_code}, the
\* response is:\n{text}"), the message kept as its parts
SlackError(response) ==
    [ t |-> "raise", v |-> "Exception",
      message |-> <<"Request to Slack returned an error ", response.status_code,
                    ", the response is:\n", response.text>> ]

\* SlackOk taking every 2xx status for a success
SlackOk2xx(response) == response.status_code >= 200 /\ response.status_code < 300

\* line 26: the status the sender accepts
SlackOk(response) == response.status_code = 200

\* lines 26-30: raise or return the response
slack_outcome(response) == IF SlackOk(response) THEN response ELSE SlackError(response)

\* the caller either raised or calls the sender with its message
WebhookStart(msg) ==
    IF IsRaised(msg)
    THEN s_outcome' = msg /\ s_pc' = "done" /\ s_message' = NotRun
    ELSE s_outcome' = NotRun /\ s_pc' = "post" /\ s_message' = msg

\* a call of send_slack_webhook_message(webhook_url, message)
SlackCall ==
    /\ UNCHANGED <<mapVars, pollVars, handlerVars>>
    /\ s_pc = "idle"
    /\ s_posts < MaxPosts
    /\ \E m \in SlackMessages : s_message' = JStr(m)
    /\ s_pc' = "post"
    /\ s_response' = NotRun
    /\ s_outcome' = NotRun
    /\ UNCHANGED s_posts

\* lines 33-38 of generate_weekly_backlog_graphics(webhook_url) on the
\* outcome y of the query: the message for the sender, or the exception; with
\* no to_markdown to call, only an empty match gives a message
backlog_message(y) ==
    Then(y, LAMBDA c :
        IF Len(fetch_requests_by_status(c, JStr("Not Started"))) > 0
        THEN Raised("AttributeError") ELSE JStr(""))

\* lines 44-51 of generate_posting_schedule(webhook_url) on the outcome y of
\* the query: the collection has no filter_by_criterion
schedule_message(y) == Then(y, LAMBDA c : Raised("AttributeError"))

\* generate_weekly_backlog_graphics(webhook_url), up to its call of the sender
WebhookBacklog ==
    /\ UNCHANGED <<mapVars, pollVars, handlerVars>>
    /\ s_pc = "idle"
    /\ s_posts < MaxPosts
    /\ s_response' = NotRun
    /\ \E transport \in Transports :
        WebhookStart(backlog_message(query_marketing_requests(transport)))
    /\ UNCHANGED s_posts

\* generate_posting_schedule(webhook_url), up to its call of the sender
WebhookSchedule ==
    /\ UNCHANGED <<mapVars, pollVars, handlerVars>>
    /\ s_pc = "idle"
    /\ s_response' = NotRun
    /\ \E transport \in Transports :
        WebhookStart(schedule_message(query_marketing_requests(transport)))
    /\ UNCHANGED s_posts

\* line 25: requests.post(webhook_url, json=payload)
SlackPost ==
    /\ UNCHANGED <<mapVars, pollVars, handlerVars>>
    /\ s_pc = "post"
    /\ s_posts' = s_posts + 1
    /\ \/ /\ s_response' = Raised("ConnectionError")
          /\ s_outcome' = Raised("ConnectionError")
          /\ s_pc' = "done"
       \/ /\ \E r \in SlackResponses : s_response' = r
          /\ s_pc' = "check"
          /\ UNCHANGED s_outcome
    /\ UNCHANGED s_message

\* lines 26-30: the status check
SlackCheck ==
    /\ UNCHANGED <<mapVars, pollVars, handlerVars>>
    /\ s_pc = "check"
    /\ s_outcome' = slack_outcome(s_response)
    /\ s_pc' = "done"
    /\ UNCHANGED <<s_message, s_response, s_posts>>

\* the call is over
SlackDone ==
    /\ UNCHANGED <<mapVars, pollVars, handlerVars>>
    /\ s_pc = "done"
    /\ s_pc' = "idle"
    /\ UNCHANGED <<s_message, s_response, s_outcome, s_posts>>

InitSlack == MapIdle /\ PollIdle /\ HandlerIdle /\ SlackIdle

NextSlack ==
    \/ SlackCall
    \/ WebhookBacklog
    \/ WebhookSchedule
    \/ SlackPost
    \/ SlackCheck
    \/ SlackDone

SpecSlack == InitSlack /\ [][NextSlack]_vars

-----------------------------------------------------------------------------
(* Spec: the polling thread interleaved with the HTTP handlers *)

Init == MapIdle /\ PollIdle /\ HandlerIdle /\ SlackIdle

Next ==
    \/ PollPost
    \/ PollCheck
    \/ PollMap
    \/ PollSort
    \/ PollResort
    \/ PollAssign
    \/ PollExcept
    \/ PollSleep
    \/ BacklogRead
    \/ BacklogRespond
    \/ Schedule
    \/ HandlerReturn

Spec == Init /\ [][Next]_vars

\* the polling thread is a thread of its own and time.sleep returns
SpecFair == Spec /\ WF_vars(Poller)

-----------------------------------------------------------------------------
(* SpecMap: the mapper and the collection applied to every raw batch *)

InitMap ==
    /\ record_map \in RecordMaps
    /\ collection = NotRun
    /\ page = NotRun
    /\ req = NotRun
    /\ fetch_arg = NotRun
    /\ fetched = NotRun
    /\ PollIdle
    /\ HandlerIdle
    /\ SlackIdle

\* MarketingRequest.from_notion_page on one page of the batch
MapPage(pg) ==
    /\ collection = NotRun
    /\ req = NotRun
    /\ page' = pg
    /\ req' = from_notion_page(pg)
    /\ UNCHANGED <<record_map, collection, fetch_arg, fetched, pollVars, handlerVars, slackVars>>

\* MarketingRequestCollection.from_record_map on the batch
Build ==
    /\ collection = NotRun
    /\ req = NotRun
    /\ collection' = from_record_map(record_map)
    /\ UNCHANGED <<record_map, page, req, fetch_arg, fetched, pollVars, handlerVars, slackVars>>

\* fetch_requests_by_status on the collection built
Fetch(s) ==
    /\ collection.t = "MarketingRequestCollection"
    /\ fetch_arg' = s
    /\ fetched' = JList(fetch_requests_by_status(collection, s))
    /\ UNCHANGED <<record_map, collection, page, req, pollVars, handlerVars, slackVars>>

\* the pages of the batch, when the body has the expected shape
PagesOf(rm) ==
    LET blocks == DictGet(DictGet(rm, "recordMap", JDict(<<>>)), "block", JDict(<<>>))
    IN  IF IsRaised(blocks) THEN {}
        ELSE { DictGet(DictValues(blocks)[i], "value", JDict(<<>>)) : i \in 1..Len(blocks.v) }

NextMap ==
    \/ \E pg \in PagesOf(record_map) : MapPage(pg)
    \/ Build
    \/ \E s \in StatusArgs : Fetch(s)

SpecMap == InitMap /\ [][NextMap]_vars

-----------------------------------------------------------------------------
(* Properties of the mapper and the collection, under SpecMap *)

IsCollection(c) == c.t = "MarketingRequestCollection"

\* the rank the specification gives a status: 0..4 for the five statuses,
\* after all of them for a missing or unknown one
SpecRank(status) ==
    IF status.t # "str" THEN 5
    ELSE CASE status.v = "Not Started" -> 0
           [] status.v = "Need Visuals" -> 1
           [] status.v = "Drafted" -> 2
           [] status.v = "Confirmed" -> 3
           [] status.v = "Posted" -> 4
           [] OTHER -> 5

\* the date the specification orders by: the post date, 2024-09-01 if missing
SpecDate(r) == IF r.post_date.t = "datetime" THEN r.post_date.v ELSE 20240901

SpecOrdered(a, b) ==
    \/ SpecRank(a.status) < SpecRank(b.status)
    \/ SpecRank(a.status) = SpecRank(b.status) /\ SpecDate(a) <= SpecDate(b)

\* the raw pages of a well-shaped batch, in response order
BatchPages(rm) ==
    LET blocks == DictValues(DictGet(DictGet(rm, "recordMap", JDict(<<>>)), "block", JDict(<<>>)))
    IN  [i \in 1..Len(blocks) |-> DictGet(blocks[i], "value", JDict(<<>>))]

Count(seq, x) == Cardinality({i \in 1..Len(seq) : seq[i] = x})

\* C2: for every raw batch, from_record_map returns a permutation of the
\* mapped records that is non-decreasing in (status rank, post date): ranks
\* Not Started 0 < Need Visuals 1 < Drafted 2 < Confirmed 3 < Posted 4,
\* missing and unknown statuses after all ranked ones, and within one rank
\* the earlier post date first.  Stated here for the batches whose records
\* all map to a request, so that only the ordering is in question.
C2_SortedPermutation ==
    (/\ collection # NotRun
     /\ record_map \notin {JDict(<<>>), JList(<<>>)}
     /\ \A i \in 1..Len(BatchPages(record_map)) :
            ~IsRaised(from_notion_page(BatchPages(record_map)[i])))
    => /\ IsCollection(collection)
       /\ LET out == collection.requests
              inp == BatchPages(record_map)
              mapped == [i \in 1..Len(inp) |-> from_notion_page(inp[i])]
          IN  /\ Len(out) = Len(inp)
              /\ \A i \in 1..Len(inp) : Count(out, mapped[i]) = Count(mapped, mapped[i])
              /\ \A i, j \in 1..Len(out) : i < j => SpecOrdered(out[i], out[j])

\* C3: mapping never raises: from_notion_page returns a request for every raw
\* page and from_record_map returns a collection for every batch.
C3_NeverRaises == ~IsRaised(req) /\ ~IsRaised(collection)

\* C4: the status of every request of a built collection is None or one of
\* the five keys of STATUS_ORDER.
C4_StatusInvariant ==
    IsCollection(collection) =>
        \A i \in 1..Len(collection.requests) :
            LET status == collection.requests[i].status IN
            \/ status = PyNone
            \/ status.t = "str" /\ status.v \in
                 {"Not Started", "Need Visuals", "Drafted", "Confirmed", "Posted"}

\* the positions of the collection whose status is the string s, exactly
Matching(c, s) ==
    { i \in 1..Len(c.requests) :
        c.requests[i].status.t = "str" /\ c.requests[i].status.v = s.v }

\* the k-th smallest element of a set of positions
Kth(S, k) == CHOOSE i \in S : Cardinality({j \in S : j < i}) = k - 1

FetchedExactly ==
    fetched # NotRun =>
        LET M == Matching(collection, fetch_arg) IN
        /\ Len(fetched.v) = Cardinality(M)
        /\ \A k \in 1..Len(fetched.v) : fetched.v[k] = collection.requests[Kth(M, k)]

\* C5: fetch_requests_by_status(s) returns exactly the requests whose status
\* is the string s, compared exactly and case-sensitively, in their order in
\* the collection, and leaves the collection as it was.
C5_FetchByStatus ==
    /\ []FetchedExactly
    /\ [][fetch_arg' # fetch_arg => collection' = collection]_vars

\* "Confirmed" was asked of a collection that also holds a "confirmed" and
\* another status, and some but not all requests came back
C5_Witness ==
    /\ fetch_arg = JStr("Confirmed")
    /\ fetched # NotRun
    /\ Len(fetched.v) = 2
    /\ Len(collection.requests) = 3
    /\ \E i \in 1..3 : collection.requests[i].status = JStr("confirmed")

\* the pages whose date key is missing, whose date path has the wrong shape,
\* whose start_date is missing or empty, or whose date string is no date
MalformedDatePages ==
    { PageEmpty, PageBadDatePath, PageNoStartDate, PageListStatus, PageBadDateString }

-----------------------------------------------------------------------------
(* Properties of the polling thread and the handlers, under Spec and SpecFair *)

Sorted(requests) ==
    \A i, j \in 1..Len(requests) : i < j => SpecOrdered(requests[i], requests[j])

\* C1: a poll cycle in which the query raises leaves notion_data as it was:
\* no step of the loop but the store of a returned collection changes it, the
\* step that raises and the except clause included, and no cycle raises once
\* it has reached the store.
C1_FailedPollKeepsData ==
    [][ /\ (poll_pc # "assign" \/ poll_pc' = "except") => notion_data' = notion_data
        /\ poll_pc \in {"assign", "sleep"} => poll_pc' # "except" ]_vars

\* a cycle has failed in the mapping or the sort and the collection of an
\* earlier cycle is still published
C1_Witness ==
    /\ poll_pc = "sleep"
    /\ p_exc \in {Raised("AttributeError"), Raised("TypeError")}
    /\ IsCollection(notion_data)
    /\ Len(notion_data.requests) > 0

\* datetime.now(), a Wednesday; its calendar week runs 2025-02-03..2025-02-09
Today == 20250205
CurrentWeek == 20250203..20250209

\* the text the weekly schedule is specified to have: the header naming the
\* week, then a line for each Confirmed request dated in the week, in order
ExpectedSchedule(c) ==
    <<[t |-> "header", week_of |-> Today]>> \o
    [i \in 1..Len(SelectSeq(c.requests,
                            LAMBDA r : r.status = JStr("Confirmed")
                                       /\ r.post_date.v \in CurrentWeek))
       |-> [t |-> "line",
            request |-> SelectSeq(c.requests,
                                  LAMBDA r : r.status = JStr("Confirmed")
                                             /\ r.post_date.v \in CurrentWeek)[i]]]

\* C7: generate_weekly_posting_schedule, run against a published collection,
\* completes and returns the header followed by one line for each Confirmed
\* request of the collection dated in the current week, and no other.
C7_WeeklySchedule ==
    [][ (h_pc = "idle" /\ h_kind' = "schedule" /\ IsCollection(notion_data))
            => h_result' = Json(ExpectedSchedule(notion_data)) ]_vars

\* C9: the polling loop never stops: under fair scheduling of the thread a
\* poll is attempted again and again, whatever the earlier cycles raised, and
\* a collection the query returned is published.
C9_PollsForever ==
    /\ []<>(poll_pc = "post")
    /\ (poll_pc = "assign") ~> (poll_pc = "sleep" /\ notion_data = p_ret)

\* the sort of a cycle has raised before anything was published, and the
\* loop has to carry on from the except clause
C9_Witness ==
    /\ poll_pc = "except"
    /\ p_exc = Raised("TypeError")
    /\ notion_data = PyNone

\* data is the complete sorted mapping of the body of response
WholeMapping(data, response) ==
    /\ IsCollection(data)
    /\ Sorted(data.requests)
    /\ LET inp == BatchPages(response.body)
           mapped == [i \in 1..Len(inp) |-> from_notion_page(inp[i])]
       IN  /\ Len(data.requests) = Len(inp)
           /\ \A i \in 1..Len(inp) :
                Count(data.requests, mapped[i]) = Count(mapped, mapped[i])

\* C10: a handler reads from notion_data either None, and that only until
\* the first publication, or the complete, sorted collection of the latest
\* successful poll: the reference is written by the poller's store alone,
\* which stores nothing but a whole sorted collection and never None again.
C10_HandlersSeeWholeSnapshots ==
    /\ [](h_pc = "read" => (h_data = PyNone \/ (IsCollection(h_data) /\ Sorted(h_data.requests))))
    /\ [][ /\ (h_pc = "idle" /\ h_pc' = "read") => h_data' = notion_data
           /\ notion_data' # notion_data =>
                (poll_pc = "assign" /\ WholeMapping(notion_data', p_response))
           /\ notion_data # PyNone => notion_data' # PyNone ]_vars

\* a handler holds a published collection of two while the poller is half
\* way through building the next one
C10_Witness ==
    /\ h_pc = "read"
    /\ IsCollection(h_data)
    /\ Len(h_data.requests) = 2
    /\ poll_pc = "map"
    /\ Len(p_blocks.v) = 2
    /\ Len(p_requests.v) = 1

-----------------------------------------------------------------------------
(* Properties of the webhook sender, under SpecSlack *)

SentAndAnswered == s_pc = "done" /\ s_response.t = "response"

\* C8: send_slack_webhook_message returns the response exactly when its
\* status is 200 and otherwise, other 2xx statuses included, raises an error
\* whose message holds the status code and the response text; a call issues
\* one POST and none after the answer.
C8_WebhookStatus ==
    /\ [](SentAndAnswered =>
            IF s_response.status_code = 200
            THEN s_outcome = s_response
            ELSE /\ IsRaised(s_outcome)
                 /\ s_outcome.message[2] = s_response.status_code
                 /\ s_outcome.message[4] = s_response.text)
    /\ [][ /\ s_posts' # s_posts => (s_pc = "post" /\ s_posts' = s_posts + 1)
           /\ s_pc = "post" => (s_pc' # "post" /\ s_posts' = s_posts + 1)
           /\ s_pc \in {"check", "done"} => s_posts' = s_posts ]_vars

\* the webhook answered 201 and the call raised, after one POST
C8_Witness ==
    /\ SentAndAnswered
    /\ s_response.status_code = 201
    /\ IsRaised(s_outcome)
    /\ s_posts = 1

====
